---- MODULE Spec2Model ----
(***************************************************************************)
(* State-machine model of src/Viewer/DiCOM_Viewer.py: the DICOMDataLoader  *)
(* (series resolution, calibration, volume building, reslicing) and the    *)
(* DICOMViewerApp interaction controller (contrast drag, slice scrub,      *)
(* wheel, axis switch, sliders, folder load).                              *)
(*                                                                         *)
(* Number representation.  Intensities in the volume and the header are    *)
(* integers (HU).  The contrast state (window_level, window_width,         *)
(* start_wl, start_ww, wl_scale, ww_scale) and the slice slider value are  *)
(* Python/Tk floats; a float v is stored as the integer v * 2^16, so that  *)
(* (max_hu + min_hu) / 2 and fractional slider positions are exact and the *)
(* rounding of a value to float32 (24 significant bits) can be computed.   *)
(***************************************************************************)
EXTENDS Integers, Sequences, FiniteSets, TLC

VARIABLES
    \* DICOMDataLoader
    header_info, is_loaded, full_hu_volume,
    \* DICOMViewerApp
    current_slice, window_level, window_width, current_view,
    mouse_x, mouse_y, start_wl, start_ww, start_slice,
    \* Tk widgets read back by the handlers
    view_var, wl_scale, ww_scale, slice_scale, slice_to,
    \* observation of the run: the last event handled (with its inputs), the
    \* get_slice_data calls its handler made, the files load_series last
    \* read (in SpecLoad: is about to read), the number of slices its build
    \* loop assigned, the pointer y of the latest left and of the latest
    \* right button press that a handler took, and the number of contrast
    \* gestures that started from a moved level
    event, calls, folder, written, y1, y3, reanchor

vars == << header_info, is_loaded, full_hu_volume,
           current_slice, window_level, window_width, current_view,
           mouse_x, mouse_y, start_wl, start_ww, start_slice,
           view_var, wl_scale, ww_scale, slice_scale, slice_to,
           event, calls, folder, written, y1, y3, reanchor >>

-----------------------------------------------------------------------------
(* Numbers *)

\* a float v is stored as v * 2^16
Fx(v) == v * 65536

Max(a, b) == IF a >= b THEN a ELSE b
Min(a, b) == IF a <= b THEN a ELSE b

\* Python int(a / b) for b > 0: truncation toward zero
IntDivMut(a, b) == a \div b
IntDiv(a, b) == IF a >= 0 THEN a \div b ELSE -((-a) \div b)

\* Python int(v) of a stored float
IntOf(v) == IntDiv(v, Fx(1))

\* numpy astype(np.int16): two's complement wrap-around
Int16(x) == ((x + 32768) % 65536) - 32768

\* dict.get(key, default)
Get(d, key, default) == IF key \in DOMAIN d THEN d[key] ELSE default

EmptyDict == [k \in {} |-> 0]

\* full_hu_volume = None
NoVolume == << >>

\* the value of ds.get('SeriesInstanceUID') when the tag is absent
NoneUID == "None"

-----------------------------------------------------------------------------
(* Files of a folder, as the image-file reader (pydicom) presents them.     *)
(* kind: "image" (readable, has PixelData), "nopix" (readable, no          *)
(* PixelData), "invalid" (dcmread raises).  pix is the raw sample matrix,   *)
(* Rows x Columns.                                                          *)

Pixels(rows, cols, base, step) ==
    [r \in 1..rows |-> [c \in 1..cols |-> base + step * ((r - 1) * cols + (c - 1))]]

Image(uid, z, rows, cols, base, step, slope, intercept) ==
    [kind |-> "image", uid |-> uid, z |-> z, Rows |-> rows, Columns |-> cols,
     pix |-> Pixels(rows, cols, base, step),
     RescaleSlope |-> slope, RescaleIntercept |-> intercept]

NotImage(kind) ==
    [kind |-> kind, uid |-> NoneUID, z |-> 0, Rows |-> 1, Columns |-> 1,
     pix |-> Pixels(1, 1, 0, 0), RescaleSlope |-> 1, RescaleIntercept |-> 0]

-----------------------------------------------------------------------------
(* DICOMDataLoader *)

\* the keys of series_map in insertion order: series identities first seen
RECURSIVE SeriesKeys(_)
SeriesKeys(items) ==
    IF items = << >> THEN << >>
    ELSE LET front == SeriesKeys(SubSeq(items, 1, Len(items) - 1))
             key == items[Len(items)].uid
         IN  IF \E i \in 1..Len(front) : front[i] = key
             THEN front ELSE Append(front, key)

\* max(series_map, key=len): the first key, in insertion order, of maximal count
MainSeriesUIDMut(keys, items) ==
    LET count(k) == Len(SelectSeq(items, LAMBDA f : f.uid = k))
        best == CHOOSE i \in 1..Len(keys) :
                    /\ \A j \in 1..Len(keys) : count(keys[j]) <= count(keys[i])
                    /\ \A j \in (i + 1)..Len(keys) : count(keys[j]) < count(keys[i])
    IN  keys[best]
MainSeriesUID(keys, items) ==
    LET count(k) == Len(SelectSeq(items, LAMBDA f : f.uid = k))
        best == CHOOSE i \in 1..Len(keys) :
                    /\ \A j \in 1..Len(keys) : count(keys[j]) <= count(keys[i])
                    /\ \A j \in 1..(i - 1) : count(keys[j]) < count(keys[i])
    IN  keys[best]

\* list.sort(key=z_pos): stable, ascending
RECURSIVE SortByZ(_)
SortByZ(items) ==
    IF items = << >> THEN << >>
    ELSE LET front == SortByZ(SubSeq(items, 1, Len(items) - 1))
             last == items[Len(items)]
             \* last goes after every element whose z is <= its own
             n == Cardinality({i \in 1..Len(front) : front[i].z <= last.z})
         IN  SubSeq(front, 1, n) \o << last >> \o SubSeq(front, n + 1, Len(front))

_sort_dicom_series(dcm_files) ==
    LET items == SelectSeq(dcm_files, LAMBDA f : f.kind = "image")
    IN  IF items = << >> THEN << >>
        ELSE LET main_series_uid == MainSeriesUID(SeriesKeys(items), items)
             IN  SortByZ(SelectSeq(items, LAMBDA f : f.uid = main_series_uid))

\* pixel_array.astype(np.int16) * R_slope + R_int
HuArray(ds, R_slope, R_int) ==
    [r \in 1..ds.Rows |-> [c \in 1..ds.Columns |->
        Int16(ds.pix[r][c]) * R_slope + R_int]]

\* numpy assignment volume[i] = hu_array: the source is broadcast to the
\* (rows, cols) target when each of its dimensions equals the target's or is 1
Broadcastable(hu_array, rows, cols) ==
    /\ Len(hu_array) \in {rows, 1}
    /\ Len(hu_array[1]) \in {cols, 1}

Broadcast(hu_array, rows, cols) ==
    [r \in 1..rows |-> [c \in 1..cols |->
        hu_array[IF Len(hu_array) = 1 THEN 1 ELSE r]
                [IF Len(hu_array[1]) = 1 THEN 1 ELSE c]]]

Ravel(hu_array) ==
    {hu_array[r][c] : r \in 1..Len(hu_array), c \in 1..Len(hu_array[1])}

SetMin(S) == CHOOSE m \in S : \A x \in S : m <= x
SetMax(S) == CHOOSE m \in S : \A x \in S : m >= x

\* the loop of _process_data over sorted_datasets[1..n]: raises at the first
\* image that cannot be assigned, keeping the slices written so far
RECURSIVE BuildLoop(_, _, _, _, _, _)
BuildLoop(sorted_datasets, n, R_slope, R_int, rows, cols) ==
    IF n = 0
    THEN [volume |-> [i \in 1..Len(sorted_datasets) |->
                        [r \in 1..rows |-> [c \in 1..cols |-> 0]]],
          all_hu_values |-> {}, raised |-> FALSE, written |-> 0]
    ELSE LET prev == BuildLoop(sorted_datasets, n - 1, R_slope, R_int, rows, cols)
             hu_array == HuArray(sorted_datasets[n], R_slope, R_int)
         IN  IF prev.raised THEN prev
             ELSE IF ~Broadcastable(hu_array, rows, cols)
             THEN [prev EXCEPT !.raised = TRUE]
             ELSE [volume |-> [prev.volume EXCEPT ![n] = Broadcast(hu_array, rows, cols)],
                   all_hu_values |-> prev.all_hu_values \cup Ravel(hu_array),
                   raised |-> FALSE, written |-> n]

\* the header_info that _process_data builds from the first dataset
HeaderOf(ds0) ==
    ("Rows" :> ds0.Rows @@ "Columns" :> ds0.Columns @@ "NumSlices" :> 0
     @@ "RescaleIntercept" :> ds0.RescaleIntercept
     @@ "RescaleSlope" :> ds0.RescaleSlope)

\* _process_data after its loop: an exception left the method (raised), or
\* NumSlices, is_loaded and the intensity bounds are set
AfterLoopMut(info, num_slices, built) ==
    [header_info |-> ("NumSlices" :> num_slices
                      @@ "MinHU" :> 0 @@ "MaxHU" :> 0 @@ info),
     is_loaded |-> TRUE,
     full_hu_volume |-> built.volume,
     raised |-> built.raised, written |-> built.written]
AfterLoop(info, num_slices, built) ==
    IF built.raised
    THEN [header_info |-> info, is_loaded |-> FALSE,
          full_hu_volume |-> built.volume, raised |-> TRUE,
          written |-> built.written]
    ELSE [header_info |-> ("NumSlices" :> num_slices
                           @@ "MinHU" :> SetMin(built.all_hu_values)
                           @@ "MaxHU" :> SetMax(built.all_hu_values)
                           @@ info),
          is_loaded |-> TRUE,
          full_hu_volume |-> built.volume,
          raised |-> FALSE, written |-> built.written]

ProcessWith(sorted_datasets, info) ==
    AfterLoop(info, Len(sorted_datasets),
              BuildLoop(sorted_datasets, Len(sorted_datasets),
                        info["RescaleSlope"], info["RescaleIntercept"],
                        info["Rows"], info["Columns"]))

\* the loader fields after _process_data(sorted_datasets), sorted_datasets
\* non-empty, started from the reset loader
_process_data(sorted_datasets) ==
    ProcessWith(sorted_datasets, HeaderOf(sorted_datasets[1]))

\* load_series: the loader as reset by lines 19-22, with the failure returned
ResetLoader(message) ==
    [header_info |-> EmptyDict, is_loaded |-> FALSE,
     full_hu_volume |-> NoVolume, success |-> FALSE,
     message |-> message, written |-> 0]

\* load_series from line 37 on, p the loader after _process_data
Processed(p) ==
    [header_info |-> p.header_info,
     is_loaded |-> p.is_loaded,
     full_hu_volume |-> p.full_hu_volume,
     success |-> (~p.raised /\ p.is_loaded),
     message |-> IF p.raised THEN "ConversionError" ELSE "Loaded",
     written |-> p.written]

\* load_series from line 34 on
Sorted(sorted_files) ==
    IF sorted_files = << >>
    THEN ResetLoader("NoValidSeries")
    ELSE Processed(_process_data(sorted_files))

\* load_series(folder): the loader fields and the returned success flag; the
\* fields held before the call are overwritten first
load_series(dcm_files) ==
    IF dcm_files = << >>
    THEN ResetLoader("NoImagesFound")
    ELSE Sorted(_sort_dicom_series(dcm_files))

\* axis extents of the (D, R, C) volume
Extent(volume, view_plane) ==
    CASE view_plane = "Axial"    -> Len(volume)
      [] view_plane = "Coronal"  -> Len(volume[1])
      [] view_plane = "Sagittal" -> Len(volume[1][1])

\* Python/numpy indexing of an axis of length n: negative indices count from
\* the end, anything else out of range raises IndexError
InRange(index, n) == -n <= index /\ index < n
Norm(index, n) == IF index < 0 THEN index + n + 1 ELSE index + 1

\* get_slice_data(view_plane, index): status "None" for a None result,
\* "IndexError" when numpy raises, "data" with the slice otherwise
get_slice_data(loaded, volume, view_plane, index) ==
    IF ~loaded THEN [status |-> "None", data |-> << >>]
    ELSE IF view_plane \notin {"Axial", "Coronal", "Sagittal"}
    THEN [status |-> "None", data |-> << >>]
    ELSE IF ~InRange(index, Extent(volume, view_plane))
    THEN [status |-> "IndexError", data |-> << >>]
    ELSE LET k == Norm(index, Extent(volume, view_plane))
         IN  [status |-> "data",
              data |-> CASE view_plane = "Axial" -> volume[k]
                         [] view_plane = "Coronal" ->
                              [d \in 1..Len(volume) |-> volume[d][k]]
                         [] view_plane = "Sagittal" ->
                              [d \in 1..Len(volume) |->
                                  [r \in 1..Len(volume[1]) |-> volume[d][r][k]]]]

-----------------------------------------------------------------------------
(* DICOMViewerApp.  The handlers are operators on the record s of all      *)
(* fields; s.exc is TRUE while a Python exception is propagating, s.calls  *)
(* lists the get_slice_data invocations made so far by the handler.        *)

Views == {"Axial", "Coronal", "Sagittal"}

WL_SENSITIVITY == 2
WW_SENSITIVITY == 4
SLICE_SENSITIVITY == 10
WheelUnit == 120
MinWidth == 10
WLFrom == -3000
WLTo == 3000
WWFrom == 10
WWTo == 6000

\* ttk.Scale.set clips the value to the range given by -from and -to
ScaleClip(value, from, to) ==
    IF from < to
    THEN (IF value < from THEN from ELSE IF value > to THEN to ELSE value)
    ELSE (IF value < to THEN to ELSE IF value > from THEN from ELSE value)

\* tkinter's CallWrapper reports an exception raised by a widget callback
\* and returns; the widget command that invoked the callback completes
Reported(s) == [s EXCEPT !.exc = FALSE]

get_max_slice_indexMut(info, view_plane) ==
    CASE view_plane = "Axial"    -> Get(info, "NumSlices", 1)
      [] view_plane = "Coronal"  -> Get(info, "Rows", 1)
      [] view_plane = "Sagittal" -> Get(info, "Columns", 1)
      [] OTHER -> 0
get_max_slice_index(info, view_plane) ==
    CASE view_plane = "Axial"    -> Get(info, "NumSlices", 1) - 1
      [] view_plane = "Coronal"  -> Get(info, "Rows", 1) - 1
      [] view_plane = "Sagittal" -> Get(info, "Columns", 1) - 1
      [] OTHER -> 0

\* the volume when lines 427-428 write through the view that get_slice_data
\* returned: the elements of the slice outside the window take its bounds
ClippedInPlace(volume, view_plane, index, L, W) ==
    LET k == Norm(index, Extent(volume, view_plane))
        clip(v) == IF 2 * Fx(v) < 2 * L - W THEN (2 * L - W) \div Fx(2)
                   ELSE IF 2 * Fx(v) > 2 * L + W THEN (2 * L + W) \div Fx(2)
                   ELSE v
    IN  [d \in DOMAIN volume |-> [r \in DOMAIN volume[d] |->
            [c \in DOMAIN volume[d][r] |->
                IF \/ view_plane = "Axial" /\ d = k
                   \/ view_plane = "Coronal" /\ r = k
                   \/ view_plane = "Sagittal" /\ c = k
                THEN clip(volume[d][r][c]) ELSE volume[d][r][c]]]]

\* update_image: get_slice_data returns a view of the volume; line 426 copies
\* it, so the clipping of lines 427-428 writes to the copy and line 430 makes
\* a new array.  The state is not changed beyond the call that is logged; an
\* IndexError of get_slice_data propagates
update_imageMut(s) ==
    LET hu_data == get_slice_data(s.is_loaded, s.full_hu_volume,
                                  s.current_view, s.current_slice)
        logged == [s EXCEPT !.calls = Append(@, [view |-> s.current_view,
                                                  index |-> s.current_slice,
                                                  loaded |-> s.is_loaded,
                                                  level |-> s.window_level,
                                                  width |-> s.window_width])]
    IN  IF hu_data.status = "IndexError" THEN [logged EXCEPT !.exc = TRUE]
        ELSE IF hu_data.status = "None" THEN logged
        ELSE [logged EXCEPT !.full_hu_volume =
                 ClippedInPlace(s.full_hu_volume, s.current_view,
                                s.current_slice, s.window_level, s.window_width)]
update_image(s) ==
    LET hu_data == get_slice_data(s.is_loaded, s.full_hu_volume,
                                  s.current_view, s.current_slice)
        logged == [s EXCEPT !.calls = Append(@, [view |-> s.current_view,
                                                  index |-> s.current_slice,
                                                  loaded |-> s.is_loaded,
                                                  level |-> s.window_level,
                                                  width |-> s.window_width])]
    IN  IF hu_data.status = "IndexError" THEN [logged EXCEPT !.exc = TRUE] ELSE logged

\* update_parameters_from_scale: the -command of wl_scale and ww_scale
update_parameters_from_scaleMut(s) ==
    LET t == [s EXCEPT !.window_level = s.wl_scale, !.window_width = s.wl_scale]
    IN  IF t.is_loaded THEN update_image(t) ELSE t
update_parameters_from_scale(s) ==
    LET t == [s EXCEPT !.window_level = s.wl_scale, !.window_width = s.ww_scale]
    IN  IF t.is_loaded THEN update_image(t) ELSE t

\* wl_scale.set(value) and ww_scale.set(value): clip, store, invoke -command
wl_scale_set(s, value) ==
    Reported(update_parameters_from_scale(
        [s EXCEPT !.wl_scale = ScaleClip(value, Fx(WLFrom), Fx(WLTo))]))

ww_scale_set(s, value) ==
    Reported(update_parameters_from_scale(
        [s EXCEPT !.ww_scale = ScaleClip(value, Fx(WWFrom), Fx(WWTo))]))

\* line 284, on the state line 283 left
SetWidthScale(a) == ww_scale_set(a, a.window_width)

_update_wl_ww_gui(s) == SetWidthScale(wl_scale_set(s, s.window_level))

\* set_current_slice, update_slice (the -command of slice_scale) and
\* slice_scale.set call one another
RECURSIVE set_current_slice(_, _)
RECURSIVE update_slice(_)
RECURSIVE slice_scale_set(_, _)

slice_scale_set(s, value) ==
    Reported(update_slice(
        [s EXCEPT !.slice_scale = ScaleClip(value, Fx(0), Fx(s.slice_to))]))

update_slice(s) ==
    LET new_slice == IntOf(s.slice_scale)
    IN  IF new_slice # s.current_slice THEN set_current_slice(s, new_slice) ELSE s

\* line 330, on the state the slider callback left
RefreshedMut(b) == b
Refreshed(b) == update_image(b)

set_current_slice(s, new_slice) ==
    LET max_index == get_max_slice_index(s.header_info, s.current_view)
        clamped_slice == Max(0, Min(max_index, new_slice))
    IN  IF clamped_slice # s.current_slice
        THEN Refreshed(slice_scale_set([s EXCEPT !.current_slice = clamped_slice],
                                       Fx(clamped_slice)))
        ELSE s

reset_slice_scaleMut(s) ==
    LET max_index == get_max_slice_index(s.header_info, s.current_view)
        a == [s EXCEPT !.slice_to = max_index]
        b == slice_scale_set(a, Fx(a.current_slice))
    IN  update_image(b)
reset_slice_scale(s) ==
    LET max_index == get_max_slice_index(s.header_info, s.current_view)
        a == [s EXCEPT !.slice_to = max_index,
                       !.current_slice = IF @ > max_index THEN 0 ELSE @]
        b == slice_scale_set(a, Fx(a.current_slice))
    IN  update_image(b)

\* the Radiobutton stores its value in view_var, then invokes change_view
change_view(s, value) ==
    LET a == [s EXCEPT !.view_var = value]
    IN  IF a.is_loaded
        THEN reset_slice_scale([a EXCEPT !.current_view = a.view_var])
        ELSE a

on_mouse_down(s, x, y) ==
    IF s.is_loaded
    THEN [s EXCEPT !.mouse_x = x, !.mouse_y = y,
                   !.start_wl = s.window_level, !.start_ww = s.window_width]
    ELSE s

on_mouse_dragMut(s, x, y) ==
    LET dx == x - s.mouse_x
        dy == y - s.mouse_y
        new_wl == s.start_wl - Fx(dy * WL_SENSITIVITY)
        new_ww == s.start_ww + Fx(dx * WW_SENSITIVITY)
        a == [s EXCEPT !.window_width = Max(Fx(MinWidth), new_ww),
                       !.window_level = new_wl]
    IN  update_image(_update_wl_ww_gui(a))
on_mouse_drag(s, x, y) ==
    IF s.is_loaded
    THEN LET dx == x - s.mouse_x
             dy == y - s.mouse_y
             new_wl == s.start_wl - Fx(dy * WL_SENSITIVITY)
             new_ww == s.start_ww + Fx(dx * WW_SENSITIVITY)
             a == [s EXCEPT !.window_width = Max(Fx(MinWidth), new_ww),
                            !.window_level = new_wl]
         IN  update_image(_update_wl_ww_gui(a))
    ELSE s

on_mouse_down_right(s, y) ==
    IF s.is_loaded
    THEN [s EXCEPT !.mouse_y = y, !.start_slice = s.current_slice]
    ELSE s

on_mouse_drag_right(s, y) ==
    IF s.is_loaded
    THEN LET dy == y - s.mouse_y
             slice_delta == -IntDiv(dy, SLICE_SENSITIVITY)
         IN  set_current_slice(s, s.start_slice + slice_delta)
    ELSE s

\* on_mouse_wheel(event): <MouseWheel> with the native event.delta
on_mouse_wheel(s, event_delta) ==
    IF ~s.is_loaded THEN s
    ELSE IF event_delta # 0
    THEN set_current_slice(s, s.current_slice + IntDiv(event_delta, WheelUnit))
    ELSE s

\* on_mouse_wheel(event, mac_direction): <Button-4> (1) and <Button-5> (-1)
on_mouse_button45(s, mac_direction) ==
    IF ~s.is_loaded THEN s
    ELSE set_current_slice(s, s.current_slice + mac_direction)

\* lines 341-349: the view and the default window of the loaded volume
SeedWindow(a) ==
    [a EXCEPT !.current_view = a.view_var,
              !.window_level = IntDiv(Fx(Get(a.header_info, "MaxHU", 1000)
                                         + Get(a.header_info, "MinHU", -1000)), 2),
              !.window_width =
                  Max(Fx(MinWidth), Fx(Get(a.header_info, "MaxHU", 1000)
                                       - Get(a.header_info, "MinHU", -1000)))]

\* line 353, unless _update_gui_after_load raised
FirstSlice(d) == IF d.exc THEN d ELSE set_current_slice(d, 0)

\* load_dicom_folder from line 338 on, r the result of load_series
AfterLoadSeries(s, r) ==
    IF r.success
    THEN FirstSlice(reset_slice_scale(_update_wl_ww_gui(SeedWindow(
             [s EXCEPT !.header_info = r.header_info, !.is_loaded = r.is_loaded,
                       !.full_hu_volume = r.full_hu_volume,
                       !.success = TRUE, !.written = r.written]))))
    ELSE slice_scale_set(
             [s EXCEPT !.header_info = r.header_info, !.is_loaded = r.is_loaded,
                       !.full_hu_volume = r.full_hu_volume,
                       !.success = FALSE, !.written = r.written,
                       !.slice_to = 0], Fx(0))

\* load_dicom_folder with the folder the dialog returned
load_dicom_folder(s, dcm_files) == AfterLoadSeries(s, load_series(dcm_files))

-----------------------------------------------------------------------------
(* The windowing transform of update_image, lines 419-431.  numpy computes  *)
(* on the float32 slice in float32: every stored value and every result of  *)
(* an operation is rounded to 24 significant bits, ties to even.  Stored    *)
(* floats are integers in units of 2^-17 here (W / 2 of a stored width);    *)
(* a float32 result is the pair m, x of the value m * 2^x.                  *)

\* the number of low bits to drop from a >= 0 to leave at most 24 bits
RECURSIVE DropBits(_)
DropBits(a) == IF a < 2^24 THEN 0 ELSE 1 + DropBits(a \div 2)

\* round acc (and a non-zero tail beyond it when sticky) to 24 significant
\* bits, ties to even: the value is m * 2^k
RoundBits(acc, sticky) ==
    LET k == DropBits(acc)
        m == acc \div 2^k
        rem == acc % 2^k
        half == IF k = 0 THEN 0 ELSE 2^(k - 1)
        up == IF k = 0 THEN FALSE
              ELSE \/ rem > half
                   \/ rem = half /\ (sticky \/ m % 2 = 1)
    IN  [m |-> IF up THEN m + 1 ELSE m, k |-> k]

\* np.float32(n): the float32 nearest to the stored float n
Float32(n) ==
    LET rounded == RoundBits(IF n < 0 THEN -n ELSE n, FALSE)
        a == rounded.m * 2^rounded.k
    IN  IF n < 0 THEN -a ELSE a

\* long division: the leading bits of acc + r / w until acc holds 24 bits
RECURSIVE DivLoop(_, _, _, _)
DivLoop(acc, r, w, x) ==
    IF acc >= 2^24 THEN [acc |-> acc, r |-> r, x |-> x]
    ELSE IF 2 * r >= w THEN DivLoop(2 * acc + 1, 2 * r - w, w, x - 1)
    ELSE DivLoop(2 * acc, 2 * r, w, x - 1)

\* the float32 quotient d / w of two float32 values, d >= 0, w > 0
Float32Div(d, w) ==
    IF d = 0 THEN [m |-> 0, x |-> 0]
    ELSE LET bits == DivLoop(d \div w, d % w, w, 0)
             rounded == RoundBits(bits.acc, bits.r # 0)
         IN  [m |-> rounded.m, x |-> bits.x + rounded.k]

\* the float32 product q * 255.0 of a float32 value q >= 0; the product of
\* the 24-bit m by 255 is formed without its six low bits
Float32Mul255(q) ==
    IF q.m = 0 THEN q
    ELSE LET h == q.m \div 256
             l == q.m % 256
             rounded == RoundBits(h * 1020 + (l * 255) \div 64, (l * 255) % 64 # 0)
         IN  [m |-> rounded.m, x |-> q.x + 6 + rounded.k]

\* astype(np.uint8) of a float32 value in [0, 256): truncation
Uint8(p) ==
    IF p.x >= 0 THEN p.m * 2^p.x
    ELSE IF p.x < 0 - 30 THEN 0
    ELSE p.m \div 2^(0 - p.x)

\* lines 420-431 for one element v of the slice, level L and width W > 0
WindowElement(v, L, W) ==
    LET min_val == Float32(2 * L - W)
        max_val == Float32(2 * L + W)
        \* v < min_val and v > max_val, v an integer
        below == v <= (min_val - 1) \div 2^17
        above == ~below /\ v > max_val \div 2^17
        clipped == IF above THEN max_val
                   ELSE IF below THEN min_val ELSE v * 2^17
    IN  Uint8(Float32Mul255(Float32Div(Float32(clipped - min_val),
                                         Float32(2 * W))))

\* image_data of update_image for the slice hu_data
Windowing(hu_data, L, W) ==
    [r \in DOMAIN hu_data |->
        [c \in DOMAIN hu_data[r] |-> WindowElement(hu_data[r][c], L, W)]]

-----------------------------------------------------------------------------
(* Inputs *)

\* pointer positions of the button and motion events
Xs == {80, 100}
Ys == {100, 115, 130}

\* native deltas of <MouseWheel> events
WheelDeltas == {-120, 0, 60, 240}

\* positions the user drags the level and width sliders to
WLStops == {Fx(WLTo)}
WWStops == {Fx(WWFrom), Fx(WWTo)}

\* slider positions between the whole numbers: Tk computes the value from the
\* pointer's pixel, which gives any float of the range
WindowLevels == {Fx(300), Fx(300) + 1, IntDiv(Fx(601), 2)}
WindowWidths == {Fx(16), Fx(10) + 3, IntDiv(Fx(33), 2)}

\* contrast gestures of a run that start from a level other than the one the
\* previous gesture started from
MaxReanchor == 1

\* folders offered to the file dialog of the viewer
BigSeries ==
    << Image("A", 2, 2, 1, 30, 10, 1, 0),
       Image("A", 0, 2, 1, 10, 10, 1, 0),
       Image("A", 1, 2, 1, 20, 10, 1, 0) >>
SmallSeries == << Image("A", 0, 1, 1, 7, 0, 1, 0) >>
MixedShapes ==
    << Image("A", 0, 2, 1, 10, 10, 1, 0), Image("A", 1, 2, 2, 20, 10, 1, 0) >>
ViewerFolders ==
    { BigSeries, SmallSeries, MixedShapes, << >> }

\* a series with intensities below, inside and above the windows that
\* WindowLevels and WindowWidths give
BrightSeries ==
    << Image("A", 0, 1, 2, 290, 9, 1, 0), Image("A", 1, 1, 2, 304, 696, 1, 0) >>

-----------------------------------------------------------------------------
(* State machine *)

NoFolder == << >>

\* y1, y3 when the latest press was not taken (no volume was loaded)
NoY == 0 - 1

\* an event with its inputs and the slice index held when it arrived
Event(op, x, y, arg) ==
    [op |-> op, x |-> x, y |-> y, arg |-> arg, index |-> current_slice]

\* the fields at the start of a handler
S0 ==
    [header_info |-> header_info, is_loaded |-> is_loaded,
     full_hu_volume |-> full_hu_volume,
     current_slice |-> current_slice, window_level |-> window_level,
     window_width |-> window_width, current_view |-> current_view,
     mouse_x |-> mouse_x, mouse_y |-> mouse_y, start_wl |-> start_wl,
     start_ww |-> start_ww, start_slice |-> start_slice,
     view_var |-> view_var, wl_scale |-> wl_scale, ww_scale |-> ww_scale,
     slice_scale |-> slice_scale, slice_to |-> slice_to,
     calls |-> << >>, exc |-> FALSE, success |-> FALSE, written |-> written]

\* the fields when the handler returns (or its exception reaches mainloop)
Handled(t, ev) ==
    /\ header_info' = t.header_info
    /\ is_loaded' = t.is_loaded
    /\ full_hu_volume' = t.full_hu_volume
    /\ current_slice' = t.current_slice
    /\ window_level' = t.window_level
    /\ window_width' = t.window_width
    /\ current_view' = t.current_view
    /\ mouse_x' = t.mouse_x
    /\ mouse_y' = t.mouse_y
    /\ start_wl' = t.start_wl
    /\ start_ww' = t.start_ww
    /\ start_slice' = t.start_slice
    /\ view_var' = t.view_var
    /\ wl_scale' = t.wl_scale
    /\ ww_scale' = t.ww_scale
    /\ slice_scale' = t.slice_scale
    /\ slice_to' = t.slice_to
    /\ calls' = t.calls
    /\ event' = ev

\* DICOMViewerApp.__init__: the scales are created with value 0; line 237
\* sets wl_scale (its callback fails on the missing ww_scale after storing
\* window_level), line 244 sets ww_scale (its callback stores both values)
InitApp ==
    /\ header_info = EmptyDict
    /\ is_loaded = FALSE
    /\ full_hu_volume = NoVolume
    /\ current_slice = 0
    /\ window_level = Fx(40)
    /\ window_width = Fx(400)
    /\ current_view = "Axial"
    /\ mouse_x = 0
    /\ mouse_y = 0
    /\ start_wl = Fx(40)
    /\ start_ww = Fx(400)
    /\ start_slice = 0
    /\ view_var = "Axial"
    /\ wl_scale = ScaleClip(Fx(40), Fx(WLFrom), Fx(WLTo))
    /\ ww_scale = ScaleClip(Fx(400), Fx(WWFrom), Fx(WWTo))
    /\ slice_scale = Fx(0)
    /\ slice_to = 0
    /\ event = [op |-> "init", x |-> 0, y |-> 0, arg |-> 0, index |-> 0]
    /\ calls = << >>
    /\ written = 0
    /\ y1 = NoY
    /\ y3 = NoY
    /\ reanchor = 0

Init == InitApp /\ folder = NoFolder

\* the fields when load_dicom_folder returns
HandledLoad(t) ==
    /\ Handled(t, Event("load", 0, 0, IF t.success THEN 1 ELSE 0))
    /\ written' = t.written

\* the button "DICOMフォルダを選択" with a folder chosen in the dialog; the
\* event records the success flag of load_series
LoadFolder(folders) ==
    \E f \in folders :
        /\ HandledLoad(load_dicom_folder(S0, f))
        /\ folder' = f
        /\ UNCHANGED << y1, y3, reanchor >>

\* <Button-1> on the image
MouseDown(xs, ys) ==
    \E x \in xs, y \in ys :
        /\ is_loaded /\ window_level # start_wl => reanchor < MaxReanchor
        /\ Handled(on_mouse_down(S0, x, y), Event("down", x, y, 0))
        /\ y1' = IF is_loaded THEN y ELSE NoY
        /\ reanchor' = IF is_loaded /\ window_level # start_wl
                       THEN reanchor + 1 ELSE reanchor
        /\ UNCHANGED << folder, written, y3 >>

\* <B1-Motion> on the image
MouseDrag(xs, ys) ==
    \E x \in xs, y \in ys :
        /\ Handled(on_mouse_drag(S0, x, y), Event("drag", x, y, 0))
        /\ UNCHANGED << folder, written, y1, y3, reanchor >>

\* <Button-3> on the image
MouseDownRight(ys) ==
    \E y \in ys :
        /\ Handled(on_mouse_down_right(S0, y), Event("down_right", 0, y, 0))
        /\ y3' = IF is_loaded THEN y ELSE NoY
        /\ UNCHANGED << folder, written, y1, reanchor >>

\* <B3-Motion> on the image
MouseDragRight(ys) ==
    \E y \in ys :
        /\ Handled(on_mouse_drag_right(S0, y), Event("drag_right", 0, y, 0))
        /\ UNCHANGED << folder, written, y1, y3, reanchor >>

\* <MouseWheel> on the image
MouseWheel(deltas) ==
    \E d \in deltas :
        /\ Handled(on_mouse_wheel(S0, d), Event("wheel", 0, 0, d))
        /\ UNCHANGED << folder, written, y1, y3, reanchor >>

\* <Button-4> and <Button-5> on the image
MouseButton45 ==
    \E d \in {1, -1} :
        /\ Handled(on_mouse_button45(S0, d), Event("button45", 0, 0, d))
        /\ UNCHANGED << folder, written, y1, y3, reanchor >>

\* a view Radiobutton
ChangeView ==
    \E v \in Views :
        /\ Handled(change_view(S0, v), Event("view", 0, 0, 0))
        /\ UNCHANGED << folder, written, y1, y3, reanchor >>

\* the user moves the level slider: Tk sets the value, the -command runs
SlideLevel(stops) ==
    \E v \in stops :
        /\ Handled(wl_scale_set(S0, v), Event("wl_scale", 0, 0, v))
        /\ UNCHANGED << folder, written, y1, y3, reanchor >>

\* the user moves the width slider
SlideWidth(stops) ==
    \E v \in stops :
        /\ Handled(ww_scale_set(S0, v), Event("ww_scale", 0, 0, v))
        /\ UNCHANGED << folder, written, y1, y3, reanchor >>

\* the user moves the slice slider to a position of its range, in half steps
SlideSlice ==
    \E v \in {IntDiv(Fx(k), 2) : k \in 0..(2 * slice_to)} :
        /\ Handled(slice_scale_set(S0, v), Event("slice_scale", 0, 0, v))
        /\ UNCHANGED << folder, written, y1, y3, reanchor >>

\* <Configure> on the root window
Configure ==
    /\ is_loaded
    /\ Handled(Reported(update_image(S0)), Event("configure", 0, 0, 0))
    /\ UNCHANGED << folder, written, y1, y3, reanchor >>

\* every operation of the viewer; one pointer column, two pointer rows
Next ==
    \/ LoadFolder(ViewerFolders)
    \/ MouseDown({100}, {100})
    \/ MouseDrag({100}, {100})
    \/ MouseDownRight({100, 115})
    \/ MouseDragRight({100, 115})
    \/ MouseWheel(WheelDeltas)
    \/ MouseButton45
    \/ ChangeView
    \/ SlideSlice
    \/ Configure

Spec == Init /\ [][Next]_vars

\* the contrast operations: loads, the left-button gesture, the two sliders
NextContrast ==
    \/ LoadFolder({BigSeries, SmallSeries, << >>})
    \/ MouseDown(Xs, Ys)
    \/ MouseDrag(Xs, Ys)
    \/ SlideLevel(WLStops)
    \/ SlideWidth(WWStops)

SpecContrast == Init /\ [][NextContrast]_vars

\* the operations that put a windowed image on the screen, with the sliders
\* at positions between the whole numbers
NextWindow ==
    \/ LoadFolder({BrightSeries, << >>})
    \/ SlideLevel(WindowLevels)
    \/ SlideWidth(WindowWidths)
    \/ ChangeView
    \/ MouseButton45
    \/ Configure

SpecWindow == Init /\ [][NextWindow]_vars


-----------------------------------------------------------------------------
(* The loader alone: load_series applied to a folder drawn from every       *)
(* sequence of at most MaxFiles files.                                      *)

MaxFiles == 3

LoadFiles ==
    { Image(uid, z, 2, 2, base, 1, 1, 0) :
          uid \in {"A", "B"}, z \in {0, 1}, base \in {0, 4} }
    \cup { Image("A", 1, shape[1], shape[2], 8, 1, 1, 0) :
          shape \in {<<1, 1>>, <<1, 2>>, <<2, 1>>} }
    \cup { Image("A", 1, 2, 2, 0, 1, 2, -1),
           Image(NoneUID, 0, 2, 2, 0, 1, 1, 0),
           NotImage("invalid"), NotImage("nopix") }

\* the folder holds any sequence of at most MaxFiles files
InitLoad ==
    /\ InitApp
    /\ \E k \in 0..MaxFiles : folder \in [1..k -> LoadFiles]

\* the loader fields when load_series returns; the event records the pair
\* (message, success) it returned
LoaderSet(r) ==
    /\ header_info' = r.header_info
    /\ is_loaded' = r.is_loaded
    /\ full_hu_volume' = r.full_hu_volume
    /\ written' = r.written
    /\ event' = [op |-> "load_series", x |-> 0, y |-> 0,
                 arg |-> IF r.success THEN 1 ELSE 0, index |-> current_slice,
                 message |-> r.message]

LoadSeries ==
    /\ LoaderSet(load_series(folder))
    /\ UNCHANGED << current_slice, window_level, window_width, current_view,
                    mouse_x, mouse_y, start_wl, start_ww, start_slice,
                    view_var, wl_scale, ww_scale, slice_scale, slice_to,
                    calls, folder, y1, y3, reanchor >>

NextLoad == LoadSeries

SpecLoad == InitLoad /\ [][NextLoad]_vars


-----------------------------------------------------------------------------
(* Properties *)

Clamp(v, lo, hi) == IF v < lo THEN lo ELSE IF v > hi THEN hi ELSE v
Sign(v) == IF v > 0 THEN 1 ELSE IF v < 0 THEN -1 ELSE 0

\* the images of the series load_series resolved from the folder
Resolved == _sort_dicom_series(folder)

\* C1: a load that returns the failure flag leaves the loaded Volume, the
\* header/calibration stats and is_loaded as they were before the call.
C1_FailedLoadKeepsVolume ==
    [][(event'.op = "load" /\ event'.arg = 0)
         => /\ full_hu_volume' = full_hu_volume
            /\ header_info' = header_info
            /\ is_loaded' = is_loaded]_vars

\* C2: whenever a volume is loaded, 0 <= current_slice <= extent - 1 for the
\* extent (D, R or C) of the current view.
C2_IndexInRange ==
    is_loaded =>
        /\ 0 <= current_slice
        /\ current_slice <= Extent(full_hu_volume, current_view) - 1

\* C2 witness: a smaller volume was loaded while the index held a value
\* beyond its extent, and the handler has brought the index back to 0.
C2_Witness ==
    /\ event.op = "load" /\ is_loaded
    /\ event.index > Extent(full_hu_volume, current_view) - 1
    /\ current_slice = 0

\* C3: every get_slice_data call of the controller on a loaded volume passes
\* an index within [0, extent(view) - 1] of that volume.
C3_CallsInRange ==
    \A i \in 1..Len(calls) :
        calls[i].loaded =>
            /\ 0 <= calls[i].index
            /\ calls[i].index <= Extent(full_hu_volume, calls[i].view) - 1

\* C4: window_width is at least the width floor 10.0 in every state, and
\* every display refresh of a loaded volume is evaluated with such a width.
C4_WidthFloor ==
    /\ window_width >= Fx(10)
    /\ \A i \in 1..Len(calls) : calls[i].loaded => calls[i].width >= Fx(10)

\* C4 witness: a contrast drag whose computed width start + dx * 4.0 lies
\* below the floor has been handled and has refreshed the display.
C4_Witness ==
    /\ event.op = "drag" /\ is_loaded /\ y1 # NoY
    /\ start_ww + Fx((event.x - mouse_x) * 4) < Fx(10)
    /\ calls # << >>

\* C5: is_loaded holds only when the build loop assigned all N slices of the
\* resolved series and NumSlices = N; when the build stops after some of the
\* slices, is_loaded is false and get_slice_data returns None everywhere.
C5_NoPartialVolume ==
    /\ is_loaded =>
          /\ written = Len(Resolved)
          /\ Len(full_hu_volume) = Len(Resolved)
          /\ Get(header_info, "NumSlices", 0) = Len(Resolved)
    /\ (event.op = "load_series" /\ written < Len(Resolved)) =>
          /\ ~is_loaded
          /\ \A v \in Views, k \in 0..MaxFiles :
                get_slice_data(is_loaded, full_hu_volume, v, k).status = "None"

\* C5 witness: a build that assigned the first slice and raised on a later one.
C5_Witness ==
    /\ event.op = "load_series"
    /\ 0 < written /\ written < Len(Resolved)
    /\ ~is_loaded /\ full_hu_volume # NoVolume

\* C6: after a press at (x0, y0) that snapshots (startLevel, startWidth), a
\* drag event at (x, y) leaves window_level = startLevel - (y - y0) * 2.0 and
\* window_width = max(10.0, startWidth + (x - x0) * 4.0).
C6_DragAbsolute ==
    (event.op = "drag" /\ is_loaded /\ y1 # NoY) =>
        /\ window_level = start_wl - Fx((event.y - y1) * 2)
        /\ window_width = Max(Fx(10), start_ww + Fx((event.x - mouse_x) * 4))

\* C7 (as claimed): after a right press at y0 with startIndex, a drag event
\* at y leaves the index at clamp(startIndex - floor((y - y0) / 10), 0, extent - 1).
C7_ScrubFloor ==
    (event.op = "drag_right" /\ is_loaded /\ y3 # NoY /\ mouse_y = y3) =>
        current_slice =
            Clamp(start_slice - ((event.y - y3) \div 10), 0,
                  Extent(full_hu_volume, current_view) - 1)

\* C7 (amended): with a volume loaded, after a right press at y0 with
\* startIndex and a drag event at y of that gesture (no left press in
\* between), the index is clamp(startIndex - trunc((y - y0) / 10), 0,
\* extent - 1), trunc rounding toward zero.
C7_ScrubTrunc ==
    (event.op = "drag_right" /\ is_loaded /\ y3 # NoY /\ mouse_y = y3) =>
        LET dy == event.y - y3
            steps == IF dy >= 0 THEN dy \div 10 ELSE -((-dy) \div 10)
        IN  current_slice =
                Clamp(start_slice - steps, 0,
                      Extent(full_hu_volume, current_view) - 1)

\* C7 witness: an upward drag by a distance that is not a multiple of 10 has
\* moved the index, with room left below the end of the axis.
C7_Witness ==
    /\ event.op = "drag_right" /\ is_loaded /\ y3 # NoY /\ mouse_y = y3
    /\ event.y - y3 < 0 /\ (event.y - y3) % 10 # 0
    /\ current_slice = start_slice + 1
    /\ current_slice < Extent(full_hu_volume, current_view) - 1

\* C8: a wheel event with a non-zero native delta of any magnitude moves the
\* index by exactly one step in the direction of the delta's sign, clamped.
C8_WheelOneStep ==
    (event.op = "wheel" /\ event.arg # 0 /\ is_loaded) =>
        current_slice =
            Clamp(event.index + Sign(event.arg), 0,
                  Extent(full_hu_volume, current_view) - 1)

\* C9: an axis switch with a volume loaded recomputes the extent for the new
\* axis; the index becomes 0 if the index held before exceeds newExtent - 1
\* and is unchanged otherwise.
C9_AxisSwitch ==
    (event.op = "view" /\ is_loaded) =>
        LET newExtent == Extent(full_hu_volume, view_var)
        IN  /\ current_view = view_var
            /\ slice_to = newExtent - 1
            /\ current_slice = IF event.index > newExtent - 1 THEN 0 ELSE event.index

\* C9 witness: a switch to an axis shorter than the index held before it.
C9_Witness ==
    /\ event.op = "view" /\ is_loaded
    /\ event.index > Extent(full_hu_volume, view_var) - 1
    /\ current_slice = 0

\* C10: every voxel of slice i of the built volume equals
\* raw * slope_i + intercept_i with image i's own calibration pair.
C10_PerImageCalibration ==
    (event.op = "load_series" /\ is_loaded) =>
        \A i \in 1..Len(Resolved) :
            \A r \in 1..Resolved[i].Rows, c \in 1..Resolved[i].Columns :
                (r <= Len(full_hu_volume[i]) /\ c <= Len(full_hu_volume[i][r])) =>
                    full_hu_volume[i][r][c] =
                        Resolved[i].pix[r][c] * Resolved[i].RescaleSlope
                            + Resolved[i].RescaleIntercept

\* the positions in the folder of the image candidates of series identity u
Members(u) ==
    {j \in 1..Len(folder) : folder[j].kind = "image" /\ folder[j].uid = u}

image_data(call) ==
    Windowing(get_slice_data(call.loaded, full_hu_volume,
                             call.view, call.index).data,
              call.level, call.width)

\* the slice a logged refresh read
hu_data(call) ==
    get_slice_data(call.loaded, full_hu_volume, call.view, call.index).data

\* C12: for every slice value v and every (L, W) with W > 0 the output byte
\* is in [0, 255], is 0 when v <= L - W/2, is 255 when v >= L + W/2, and is
\* monotonic non-decreasing in v.
C12_Windowing ==
    \A i \in 1..Len(calls) :
        (calls[i].loaded /\ calls[i].width > 0) =>
            LET slice == hu_data(calls[i])
                image == image_data(calls[i])
                L == calls[i].level
                W == calls[i].width
            IN  \A r \in DOMAIN slice : \A c \in DOMAIN slice[r] :
                    /\ image[r][c] \in 0..255
                    /\ 2 * Fx(slice[r][c]) <= 2 * L - W => image[r][c] = 0
                    /\ 2 * Fx(slice[r][c]) >= 2 * L + W => image[r][c] = 255
                    /\ \A r2 \in DOMAIN slice : \A c2 \in DOMAIN slice[r2] :
                           slice[r][c] <= slice[r2][c2]
                               => image[r][c] <= image[r2][c2]


\* C13: if the images of the chosen series do not all have the same row and
\* column counts (including an image with a single row or column or a 1x1
\* image), the load returns failure and is_loaded stays false.
C13_MixedGeometryFails ==
    (/\ event.op = "load_series"
     /\ \E i, j \in 1..Len(Resolved) :
            \/ Resolved[i].Rows # Resolved[j].Rows
            \/ Resolved[i].Columns # Resolved[j].Columns)
        => (event.arg = 0 /\ ~is_loaded)

\* C14: if there are readable candidates and none carries a series identity,
\* the load returns the 'no valid series' failure and no volume is loaded; an
\* empty candidate set returns the 'no usable images' failure.
C14_NoIdentityFails ==
    event.op = "load_series" =>
        /\ (/\ \E j \in 1..Len(folder) : folder[j].kind = "image"
            /\ \A j \in 1..Len(folder) :
                   folder[j].kind = "image" => folder[j].uid = NoneUID)
               => /\ event.message = "NoValidSeries" /\ event.arg = 0
                  /\ ~is_loaded /\ full_hu_volume = NoVolume
        /\ folder = << >>
               => /\ event.message = "NoImagesFound" /\ event.arg = 0
                  /\ ~is_loaded /\ full_hu_volume = NoVolume


\* the index an index update request of the latest event asks for: the wheel
\* and the step buttons from the index held, the scrub drag from the press
\* snapshot, the slider from its position
Requested ==
    CASE event.op = "wheel" -> event.index + IntDiv(event.arg, WheelUnit)
      [] event.op = "button45" -> event.index + event.arg
      [] event.op = "drag_right" ->
             start_slice - IntDiv(event.y - mouse_y, SLICE_SENSITIVITY)
      [] event.op = "slice_scale" -> IntOf(event.arg)

\* C15: an index update request (wheel, scrub drag, slider) triggers a
\* display refresh if and only if the clamped new index differs from the
\* current index; a request whose clamped value equals the current index
\* changes no state and triggers no refresh.
C15_RefreshIffChanged ==
    [][(/\ event'.op \in {"wheel", "button45", "drag_right", "slice_scale"}
        /\ is_loaded
        /\ event'.op = "wheel" => event'.arg # 0)
         => LET clamped == Clamp(Requested', 0,
                                 Extent(full_hu_volume, current_view) - 1)
            IN  /\ (calls' # << >>) <=> (clamped # current_slice)
                /\ clamped = current_slice =>
                       UNCHANGED << header_info, is_loaded, full_hu_volume,
                                    current_slice, window_level, window_width,
                                    current_view, mouse_x, mouse_y, start_wl,
                                    start_ww, start_slice, view_var, wl_scale,
                                    ww_scale, slice_to >>]_vars

\* C15 witness: a step request at the last index of the axis was handled
\* without a refresh, after requests that moved the index there.
C15_Witness ==
    /\ event.op = "button45" /\ event.arg = 1 /\ is_loaded
    /\ event.index = Extent(full_hu_volume, current_view) - 1
    /\ event.index > 0
    /\ current_slice = event.index /\ calls = << >>


\* C16: when load_dicom_folder completes after a successful load with global
\* intensity bounds (min, max), window_level = (max + min) / 2 and
\* window_width = max(10.0, max - min), whatever level and width were held
\* before the load and whatever values the level and width sliders held.
C16_SeededWindow ==
    (event.op = "load" /\ event.arg = 1) =>
        /\ 2 * window_level = Fx(header_info["MaxHU"] + header_info["MinHU"])
        /\ window_width =
               Max(Fx(10), Fx(header_info["MaxHU"] - header_info["MinHU"]))


\* C17: the contrast gesture and the slice-scrub gesture are independent
\* under interleaving: a left drag produces the level and width computed from
\* the left press point and its snapshot, whatever right-button events came
\* in between, and a scrub drag produces the index computed from the right
\* press point and its snapshot, whatever left press came in between.
C17_GesturesIndependent ==
    [][/\ (event'.op = "drag" /\ is_loaded /\ y1 # NoY) =>
              LET alone == on_mouse_drag([S0 EXCEPT !.mouse_y = y1],
                                         event'.x, event'.y)
              IN  /\ window_level' = alone.window_level
                  /\ window_width' = alone.window_width
       /\ (event'.op = "drag_right" /\ is_loaded /\ y3 # NoY) =>
              current_slice' =
                  on_mouse_drag_right([S0 EXCEPT !.mouse_y = y3],
                                      event'.y).current_slice]_vars


\* C18: reslicing and windowing never modify the loaded volume: after any
\* sequence of get_slice_data and update_image calls with any axis, index,
\* level and width, every voxel equals the value written at load time.
C18_VolumeUntouched ==
    is_loaded => full_hu_volume = load_series(folder).full_hu_volume

\* C18 witness: a refresh windowed a slice with an element below the window
\* and an element above it, on an axis other than the one the images were
\* stacked on.
C18_Witness ==
    /\ is_loaded /\ event.op # "load" /\ calls # << >>
    /\ calls[1].view # "Axial"
    /\ \E r \in DOMAIN hu_data(calls[1]) : \E c \in DOMAIN hu_data(calls[1])[r] :
           2 * Fx(hu_data(calls[1])[r][c]) < 2 * calls[1].level - calls[1].width
    /\ \E r \in DOMAIN hu_data(calls[1]) : \E c \in DOMAIN hu_data(calls[1])[r] :
           2 * Fx(hu_data(calls[1])[r][c]) > 2 * calls[1].level + calls[1].width


\* C19: while no volume is loaded (initially or after a failed load), left
\* press and drag, right press and drag, wheel and axis-switch events leave
\* window_level, window_width, current_slice and current_view unchanged and
\* request no display refresh.
C19_IdleWithoutVolume ==
    [][(/\ ~is_loaded
        /\ event'.op \in {"down", "drag", "down_right", "drag_right",
                          "wheel", "button45", "view"})
         => /\ UNCHANGED << window_level, window_width,
                            current_slice, current_view >>
            /\ calls' = << >>]_vars

\* C19 witness: after a failed load, a left drag away from the press point
\* that the contrast gesture last recorded was handled without a refresh.
C19_Witness ==
    /\ ~is_loaded /\ folder # NoFolder
    /\ event.op = "drag" /\ (event.x # mouse_x \/ event.y # mouse_y)
    /\ calls = << >>


====
